---- MODULE Spec2Model ----
(***************************************************************************)
(* Model of image_downloader.py: safe_filename, get_extension_from_url and *)
(* download_image_stream.                                                  *)
(*                                                                         *)
(* Strings are sequences of one-character strings.  The single exception   *)
(* is the scheme-and-host prefix of a URL, which urlparse never puts in    *)
(* the path and which is therefore kept as one indivisible element.        *)
(* The file system is a record: whether the folder exists, and a function  *)
(* from the paths of the regular files in it to their contents.  Paths are *)
(* POSIX paths (separator "/").                                            *)
(***************************************************************************)
EXTENDS Integers, Sequences, FiniteSets

VARIABLES
    image_url,      \* argument: the URL
    name,           \* argument: the desired name
    fs0,            \* the file system when the call starts
    fs,             \* the file system now
    pc,             \* position of the call in download_image_stream
    ext,            \* local ext (line 30)
    safe_name,      \* local safe_name (line 32)
    image_path,     \* local image_path (lines 36 and 53)
    sent,           \* the HTTP requests issued so far, in order
    r,              \* the response object (line 44)
    idx,            \* position of iter_content in the response stream
    opened,         \* the paths open(.., 'wb') succeeded on
    removed,        \* the paths os.remove deleted
    rm_failed,      \* os.remove raised (and the handler swallowed it)
    exc,            \* the exception raised in the call, "none" when none was
    outcome         \* how the call ended

vars == <<image_url, name, fs0, fs, pc, ext, safe_name, image_path, sent, r,
          idx, opened, removed, rm_failed, exc, outcome>>

----------------------------------------------------------------------------
\* Bounds of the model.

MaxNameLen == 3
MaxUrlLen == 3
MaxChunks == 3

\* timeout: int = 10
Timeout == 10

----------------------------------------------------------------------------
\* Strings.

\* Python's None, kept apart from every string of the model.
None == <<"None">>

UpperSeq == <<"A","B","C","D","E","F","G","H","I","J","K","L","M",
              "N","O","P","Q","R","S","T","U","V","W","X","Y","Z">>
LowerSeq == <<"a","b","c","d","e","f","g","h","i","j","k","l","m",
              "n","o","p","q","r","s","t","u","v","w","x","y","z">>
Digits == {"0","1","2","3","4","5","6","7","8","9"}

Range(s) == {s[i] : i \in 1..Len(s)}

\* The characters the class [A-Za-z0-9._-] of line 13 accepts.
SafeChars == Range(UpperSeq) \cup Range(LowerSeq) \cup Digits \cup {".", "_", "-"}

\* str.lower() on one character.
LowerChar(ch) ==
    IF \E i \in 1..26 : UpperSeq[i] = ch
    THEN LowerSeq[CHOOSE i \in 1..26 : UpperSeq[i] = ch]
    ELSE ch

\* str.lower()
Lower(s) == [i \in 1..Len(s) |-> LowerChar(s[i])]

\* str.startswith(prefix)
StartsWith(s, prefix) ==
    /\ Len(s) >= Len(prefix)
    /\ SubSeq(s, 1, Len(prefix)) = prefix

\* Index of the last occurrence of ch in s, 0 when there is none (rfind + 1).
LastIndex(s, ch) ==
    IF \E i \in 1..Len(s) : s[i] = ch
    THEN CHOOSE i \in 1..Len(s) : s[i] = ch /\ \A j \in (i+1)..Len(s) : s[j] # ch
    ELSE 0

\* Index of the first occurrence of a character of cs in s, Len(s)+1 when none.
FirstIndexOf(s, cs) ==
    IF \E i \in 1..Len(s) : s[i] \in cs
    THEN CHOOSE i \in 1..Len(s) : s[i] \in cs /\ \A j \in 1..(i-1) : s[j] \notin cs
    ELSE Len(s) + 1

\* All sequences over S of length at most n.
SeqsUpTo(S, n) == UNION {[1..k -> S] : k \in 0..n}

\* str.split(sep): the pieces of s between the occurrences of sep.
RECURSIVE Split(_, _)
Split(s, sep) ==
    LET k == FirstIndexOf(s, {sep})
    IN  IF k > Len(s)
        THEN <<s>>
        ELSE <<SubSeq(s, 1, k - 1)>> \o Split(SubSeq(s, k + 1, Len(s)), sep)

----------------------------------------------------------------------------
\* safe_filename (lines 9-13).

\* Path(name).name on a POSIX build: the last component of the path, where
\* empty components and "." components are dropped; "" when none is left.
PathName(s) ==
    LET parts == SelectSeq(Split(s, "/"), LAMBDA p : p # <<>> /\ p # <<".">>)
    IN  IF parts = <<>> THEN <<>> ELSE parts[Len(parts)]

\* Mutant of ReSub: the class also lets the backslash through.
ReSubKeepsBackslash(s) ==
    [i \in 1..Len(s) |-> IF s[i] \in SafeChars \cup {"\\"} THEN s[i] ELSE "_"]

\* re.sub(r'[^A-Za-z0-9._-]', '_', s)
ReSub(s) == [i \in 1..Len(s) |-> IF s[i] \in SafeChars THEN s[i] ELSE "_"]

safe_filename(n) == ReSub(PathName(n))

----------------------------------------------------------------------------
\* get_extension_from_url (lines 16-22).

\* The scheme-and-host prefixes of the URLs of the model.  urlparse raises
\* ValueError("Invalid IPv6 URL") on the second one.
GoodHost == "http://x.com"
BadHost == "http://["
Hosts == {GoodHost, BadHost}

\* urlparse(image_url) raises.
UrlParseRaises(u) == Len(u) > 0 /\ u[1] = BadHost

\* urlparse(image_url).path: what follows the scheme and host, up to the
\* query ("?") or the fragment ("#").
UrlPath(u) ==
    LET rest == IF Len(u) > 0 /\ u[1] \in Hosts THEN Tail(u) ELSE u
    IN  SubSeq(rest, 1, FirstIndexOf(rest, {"?", "#"}) - 1)

\* os.path.splitext(p)[1] (posixpath): the text from the last dot of the last
\* component on, unless that component has only dots before it.
SplitExt(p) ==
    LET sepIndex == LastIndex(p, "/")
        dotIndex == LastIndex(p, ".")
    IN  IF /\ dotIndex > sepIndex
           /\ \E k \in (sepIndex + 1)..(dotIndex - 1) : p[k] # "."
        THEN SubSeq(p, dotIndex, Len(p))
        ELSE <<>>

get_extension_from_url(u) == Lower(SplitExt(UrlPath(u)))

----------------------------------------------------------------------------
\* The file system.

\* folder: str = 'images'
Folder == <<"i","m","a","g","e","s">>

\* os.path.join(a, b) (posixpath)
Join(a, b) ==
    IF StartsWith(b, <<"/">>) THEN b
    ELSE IF a = <<>> \/ a[Len(a)] = "/" THEN a \o b
    ELSE a \o <<"/">> \o b

\* The paths in the folder that name a directory once the folder exists: the
\* folder itself and its parent.
DirPaths == {Join(Folder, <<".">>), Join(Folder, <<".", ".">>)}

\* Mutant of Exists: the test never finds anything.
ExistsNever(f, p) == FALSE

\* os.path.exists(p) on the file system f = [dir, files]: dir says whether the
\* folder exists, files maps the regular files in it to their contents.
Exists(f, p) == p \in DOMAIN f.files \/ (f.dir /\ p \in DirPaths)

\* The file system after open(p, 'wb'): p is created, or truncated.
Truncated(f, p) ==
    [f EXCEPT !.files = [q \in DOMAIN f.files \cup {p} |->
                            IF q = p THEN <<>> ELSE f.files[q]]]

\* The file system after os.remove(p).
Removed(f, p) ==
    [f EXCEPT !.files = [q \in DOMAIN f.files \ {p} |-> f.files[q]]]

\* Mutant of WriteChunk: each write starts the file over.
WriteChunkOverwrites(content, chunk) ==
    IF chunk # <<>> THEN chunk ELSE content

\* The content of a file after f.write(chunk), guarded by "if chunk" (line 58).
WriteChunk(content, chunk) ==
    IF chunk # <<>> THEN content \o chunk ELSE content

----------------------------------------------------------------------------
\* The paths download_image_stream builds.

\* os.path.join(folder, f'{safe_name}.{ext}') (line 36)
ImagePath(sn, e) == Join(Folder, sn \o <<".">> \o e)

\* content_type.startswith('image/') (line 51)
ImagePrefix == <<"i","m","a","g","e","/">>

\* '.' + content_type.split('/')[-1].lower() (line 52)
Guessed(ct) ==
    LET pieces == Split(ct, "/")
    IN  <<".">> \o Lower(pieces[Len(pieces)])

\* os.path.join(folder, f'{safe_name}{guessed}') (line 53)
GuessedPath(sn, ct) == Join(Folder, sn \o Guessed(ct))

----------------------------------------------------------------------------
\* The environment: what the server answers and what the caller passes.

\* headers = {'User-Agent': 'python-requests/1.0'} (line 41)
headers == [UserAgent |-> "python-requests/1.0"]

\* The headers requests sends when the call passes none: its own default
\* User-Agent, which names the installed version of the library.
DefaultHeaders == [UserAgent |-> "python-requests/<installed version>"]

\* requests.get(image_url, stream=True, timeout=timeout) (line 44): the
\* request as it goes out.  No headers argument is passed.
GetRequest(u) ==
    [method |-> "GET", url |-> u, stream |-> TRUE, timeout |-> Timeout,
     headers |-> DefaultHeaders]

\* r.raise_for_status() raises HTTPError on the statuses 400..599.
IsErrorStatus(s) == s >= 400 /\ s < 600

Statuses == {200, 304, 404}

\* Content-Type headers a server may send; None when it sends none.
ContentTypes ==
    { None,
      <<"i","m","a","g","e","/","P","N","G">>,
      <<"t","e","x","t","/","h","t","m","l">> }

\* The chunks iter_content may yield: empty ones (keep-alive) included.
ChunkValues == {<<>>, <<1>>, <<2>>, <<1, 2>>}

\* A response.  Only a 200 response carries a body: the body of an error
\* response is never read, and a 304 response has none.
Responses ==
    { resp \in [status : Statuses, content_type : ContentTypes,
                chunks : SeqsUpTo(ChunkValues, MaxChunks)] :
        resp.status # 200 => resp.chunks = <<>> }

NoResponse == [status |-> 0, content_type |-> None, chunks |-> <<>>]

\* The bytes a response serves: its chunks, concatenated in order.
RECURSIVE Flatten(_)
Flatten(cs) == IF cs = <<>> THEN <<>> ELSE Head(cs) \o Flatten(Tail(cs))

\* Content of the files that exist before the call.
OldContent == <<9>>

Pending == [kind |-> "pending", value |-> None]
Returned(v) == [kind |-> "returned", value |-> v]
Raised(e) == [kind |-> "raised", value |-> <<e>>]

----------------------------------------------------------------------------
\* download_image_stream (lines 25-80).

\* The call ends by raising e to its caller.
Propagate(e) ==
    /\ exc' = e
    /\ outcome' = Raised(e)
    /\ pc' = "done"

\* An exception e is raised inside the try block of line 42: control goes to
\* the handler of line 63 (requests.RequestException) or of line 73.
Throw(e, handler) ==
    /\ exc' = e
    /\ pc' = handler

\* Lines 30-38: extension, name, folder, path, existence check.  All of it
\* runs before the try block.  os.makedirs can fail only when it has a folder
\* to create.
Resolve ==
    /\ pc = "start"
    /\ UNCHANGED <<image_url, name, fs0, sent, r, idx, opened, removed, rm_failed>>
    /\ IF UrlParseRaises(image_url)
       THEN /\ Propagate("ValueError")
            /\ UNCHANGED <<fs, ext, safe_name, image_path>>
       ELSE /\ ext' = get_extension_from_url(image_url)
            /\ safe_name' = safe_filename(name)
            /\ \E mkdir_ok \in {TRUE} \cup {fs.dir} :
                 IF ~mkdir_ok
                 THEN /\ Propagate("OSError")
                      /\ UNCHANGED <<fs, image_path>>
                 ELSE /\ fs' = [fs EXCEPT !.dir = TRUE]
                      /\ image_path' = ImagePath(safe_name', ext')
                      /\ IF Exists(fs', image_path')
                         THEN Propagate("FileExistsError")
                         ELSE /\ pc' = "request"
                              /\ UNCHANGED <<exc, outcome>>

\* Line 44: the GET request goes out; the server answers, or the connection
\* fails or times out (a requests.RequestException).
Request ==
    /\ pc = "request"
    /\ sent' = Append(sent, GetRequest(image_url))
    /\ UNCHANGED <<image_url, name, fs0, fs, ext, safe_name, image_path, idx,
                   opened, removed, rm_failed, outcome>>
    /\ \/ /\ Throw("ConnectionError", "except_request")
          /\ UNCHANGED r
       \/ /\ \E resp \in Responses : r' = resp
          /\ pc' = "status"
          /\ UNCHANGED exc

\* Mutant of CheckStatus: the status is never looked at.
CheckStatusIgnored ==
    /\ pc = "status"
    /\ pc' = "guess"
    /\ UNCHANGED <<image_url, name, fs0, fs, ext, safe_name, image_path, sent,
                   r, idx, opened, removed, rm_failed, outcome, exc>>

\* Line 46: r.raise_for_status().
CheckStatus ==
    /\ pc = "status"
    /\ UNCHANGED <<image_url, name, fs0, fs, ext, safe_name, image_path, sent,
                   r, idx, opened, removed, rm_failed, outcome>>
    /\ IF IsErrorStatus(r.status)
       THEN Throw("HTTPError", "except_request")
       ELSE pc' = "guess" /\ UNCHANGED exc

\* Lines 48-53: the extension is taken from the content type when the URL
\* gave none.  "not ext and ..." evaluates content_type.startswith only when
\* ext is empty, and None has no startswith (AttributeError).
GuessExtension ==
    /\ pc = "guess"
    /\ UNCHANGED <<image_url, name, fs0, fs, ext, safe_name, sent, r, idx,
                   opened, removed, rm_failed, outcome>>
    /\ IF ext = <<>> /\ r.content_type = None
       THEN /\ Throw("AttributeError", "except_other")
            /\ UNCHANGED image_path
       ELSE /\ image_path' =
                 IF ext = <<>> /\ StartsWith(r.content_type, ImagePrefix)
                 THEN GuessedPath(safe_name, r.content_type)
                 ELSE image_path
            /\ pc' = "open"
            /\ UNCHANGED exc

\* Line 56: open(image_path, 'wb') creates the file or truncates it, or
\* fails (an OSError: no permission, disk full, a directory in the way).
Open ==
    /\ pc = "open"
    /\ UNCHANGED <<image_url, name, fs0, ext, safe_name, image_path, sent, r,
                   removed, rm_failed, outcome>>
    /\ \/ /\ image_path \notin DirPaths
          /\ fs' = Truncated(fs, image_path)
          /\ opened' = opened \cup {image_path}
          /\ idx' = 1
          /\ pc' = "stream"
          /\ UNCHANGED exc
       \/ /\ Throw("OSError", "except_other")
          /\ UNCHANGED <<fs, opened, idx>>

\* Lines 57-58: one turn of the loop over r.iter_content.  The stream can
\* break at any point (a requests.RequestException) and the write of a
\* chunk can fail (an OSError).
Iterate ==
    /\ pc = "stream"
    /\ UNCHANGED <<image_url, name, fs0, ext, safe_name, image_path, sent, r,
                   opened, removed, rm_failed, outcome>>
    /\ \/ /\ idx <= Len(r.chunks)
          /\ fs' = [fs EXCEPT !.files[image_path] = WriteChunk(@, r.chunks[idx])]
          /\ idx' = idx + 1
          /\ UNCHANGED <<pc, exc>>
       \/ /\ Throw("ChunkedEncodingError", "except_request")
          /\ UNCHANGED <<fs, idx>>
       \/ /\ idx <= Len(r.chunks)
          /\ r.chunks[idx] # <<>>
          /\ Throw("OSError", "except_other")
          /\ UNCHANGED <<fs, idx>>

\* Lines 57-60: the stream is exhausted and both with blocks close; the path
\* is returned, unless closing the file fails (an OSError).
Finish ==
    /\ pc = "stream"
    /\ idx > Len(r.chunks)
    /\ UNCHANGED <<image_url, name, fs0, fs, ext, safe_name, image_path, sent,
                   r, idx, opened, removed, rm_failed>>
    /\ \/ /\ outcome' = Returned(image_path)
          /\ pc' = "done"
          /\ UNCHANGED exc
       \/ /\ Throw("OSError", "except_other")
          /\ UNCHANGED outcome

\* Mutant of Cleanup: the handler removes the path of line 36, not the path
\* the file was opened at.
CleanupStalePath ==
    LET stale == ImagePath(safe_name, ext)
    IN  IF stale \in DOMAIN fs.files
        THEN \/ /\ fs' = Removed(fs, stale)
                /\ removed' = removed \cup {stale}
                /\ UNCHANGED rm_failed
             \/ /\ rm_failed' = TRUE
                /\ UNCHANGED <<fs, removed>>
        ELSE UNCHANGED <<fs, removed, rm_failed>>

\* Lines 66-70 and 75-79: remove the file at image_path when there is one;
\* a failure of os.remove is swallowed.  os.remove never removes a directory.
Cleanup ==
    IF Exists(fs, image_path)
    THEN \/ /\ image_path \notin DirPaths
            /\ fs' = Removed(fs, image_path)
            /\ removed' = removed \cup {image_path}
            /\ UNCHANGED rm_failed
         \/ /\ rm_failed' = TRUE
            /\ UNCHANGED <<fs, removed>>
    ELSE UNCHANGED <<fs, removed, rm_failed>>

\* Lines 63-71: except requests.RequestException.
HandleRequestException ==
    /\ pc = "except_request"
    /\ Cleanup
    /\ outcome' = Returned(None)
    /\ pc' = "done"
    /\ UNCHANGED <<image_url, name, fs0, ext, safe_name, image_path, sent, r,
                   idx, opened, exc>>

\* Mutant of HandleException: the handler cleans up and raises again.
HandleExceptionReraises ==
    /\ pc = "except_other"
    /\ Cleanup
    /\ outcome' = Raised(exc)
    /\ pc' = "done"
    /\ UNCHANGED <<image_url, name, fs0, ext, safe_name, image_path, sent, r,
                   idx, opened, exc>>

\* Lines 73-80: except Exception.
HandleException ==
    /\ pc = "except_other"
    /\ Cleanup
    /\ outcome' = Returned(None)
    /\ pc' = "done"
    /\ UNCHANGED <<image_url, name, fs0, ext, safe_name, image_path, sent, r,
                   idx, opened, exc>>

----------------------------------------------------------------------------
\* Specifications.

\* The locals and the bookkeeping when the call starts.
Fresh ==
    /\ fs = fs0
    /\ pc = "start"
    /\ ext = <<>>
    /\ safe_name = <<>>
    /\ image_path = <<>>
    /\ sent = <<>>
    /\ r = NoResponse
    /\ idx = 0
    /\ opened = {}
    /\ removed = {}
    /\ rm_failed = FALSE
    /\ exc = "none"
    /\ outcome = Pending

\* Names and URLs of the calls of Spec.
Names == { <<"c">>, <<>>, <<".", ".", "/", "c", "\\">> }

Urls ==
    { <<GoodHost, "/", "a", "/", "p", ".", "J", "P", "G", "?", "x">>,
      <<GoodHost, "/", "a", "/", "p">>,
      <<BadHost, "/", "p">> }

\* The files that may be in the folder before the call.
OldFiles ==
    { Join(Folder, <<"c", ".", ".", "j", "p", "g">>),
      Join(Folder, <<"c", ".">>),
      Join(Folder, <<"c", ".", "p", "n", "g">>),
      Join(Folder, <<"c", ".", "j", "p", "g">>) }

\* The file systems a call may start on: a folder that exists holds one of
\* the old files or none, a folder that does not exist holds none.
FileSystems ==
    { [dir |-> TRUE, files |-> [p \in S |-> OldContent]] :
        S \in {{}} \cup {{q} : q \in OldFiles} }
    \cup { [dir |-> FALSE, files |-> [p \in {} |-> OldContent]] }

Init ==
    /\ image_url \in Urls
    /\ name \in Names
    /\ fs0 \in FileSystems
    /\ Fresh

Next ==
    \/ Resolve
    \/ Request
    \/ CheckStatus
    \/ GuessExtension
    \/ Open
    \/ Iterate
    \/ Finish
    \/ HandleRequestException
    \/ HandleException

Spec == Init /\ [][Next]_vars

\* The calls of SpecResolve: every name and every URL within the bounds, on
\* an empty folder or none.  The call is followed up to the request.
NameChars == {"c", ".", "/", "\\"}
UrlChars == {"J", ".", "/", "?"}

InitResolve ==
    /\ name \in SeqsUpTo(NameChars, MaxNameLen)
    /\ image_url \in { h \o u : h \in {<<>>, <<GoodHost>>},
                                u \in SeqsUpTo(UrlChars, MaxUrlLen) }
                     \cup {<<BadHost>>}
    /\ fs0 \in { [dir |-> d, files |-> [p \in {} |-> OldContent]] : d \in BOOLEAN }
    /\ Fresh

SpecResolve == InitResolve /\ [][Resolve]_vars

----------------------------------------------------------------------------
\* Properties.

\* The call got an answer from the server.
Answered == r # NoResponse

\* C1: when a fault occurs after the output file was created, the call
\* returns None and, unless os.remove itself failed, no file is left at the
\* path that was opened (the recomputed one included).
C1_PartialFileRemoved ==
    (pc = "done" /\ exc # "none" /\ image_path \in opened) =>
        /\ outcome = Returned(None)
        /\ ~rm_failed => image_path \notin DOMAIN fs.files

\* A stream that broke after a chunk was written to the recomputed path.
C1_Witness ==
    /\ pc = "done"
    /\ exc = "ChunkedEncodingError"
    /\ image_path \in opened
    /\ image_path # ImagePath(safe_name, ext)
    /\ idx > 1
    /\ ~rm_failed

\* C2: when the path of line 36 is a file that exists when the call starts,
\* the call raises FileExistsError, issues no request and touches no file.
C2_ExistingTargetRefused ==
    ( /\ ~UrlParseRaises(image_url)
      /\ ImagePath(safe_filename(name), get_extension_from_url(image_url))
            \in DOMAIN fs0.files ) =>
        /\ sent = <<>>
        /\ fs = fs0
        /\ opened = {}
        /\ removed = {}
        /\ pc # "start" => pc = "done" /\ outcome = Raised("FileExistsError")

\* The call was refused because its target was there.
C2_Witness ==
    /\ pc = "done"
    /\ outcome = Raised("FileExistsError")
    /\ image_path \in DOMAIN fs0.files

\* C3: no file that existed before the call is opened for writing, removed
\* or changed by it.
C3_OldFilesUntouched ==
    \A p \in DOMAIN fs0.files :
        /\ p \notin opened
        /\ p \notin removed
        /\ p \in DOMAIN fs.files
        /\ fs.files[p] = fs0.files[p]

\* C4 as claimed: no exception leaves download_image_stream.
C4_NoExceptionEscapes == outcome.kind # "raised"

\* C4 as amended: a fault is turned into the None outcome exactly when it is
\* raised once the request was issued; the three faults of the lines before
\* the try block (ValueError of urlparse, OSError of os.makedirs, the
\* FileExistsError of line 38) leave the call as exceptions.
C4_FaultsInsideTryBecomeNone ==
    (pc = "done" /\ exc # "none") =>
        IF sent = <<>>
        THEN /\ outcome = Raised(exc)
             /\ exc \in {"ValueError", "OSError", "FileExistsError"}
        ELSE outcome = Returned(None)

\* A missing content type, an unexpected fault, ended as None.
C4_Witness ==
    /\ pc = "done"
    /\ exc = "AttributeError"
    /\ outcome = Returned(None)

\* C5: a call that returns a path returns the path it wrote, and the file
\* there holds the chunks of the response, concatenated in order.
C5_FileEqualsServedBytes ==
    (pc = "done" /\ outcome.kind = "returned" /\ outcome.value # None) =>
        /\ outcome.value = image_path
        /\ image_path \in DOMAIN fs.files
        /\ fs.files[image_path] = Flatten(r.chunks)

\* A body of three bytes served in three chunks, one of them empty.
C5_Witness ==
    /\ pc = "done"
    /\ outcome = Returned(image_path)
    /\ Len(r.chunks) = 3
    /\ r.chunks[2] = <<>>
    /\ Len(Flatten(r.chunks)) = 3

\* C6: with no extension in the URL and a 200 answer the file is written,
\* barring a fault of the network or the disk: to name + "." + lowercased
\* subtype for an image type, to the path of line 36 otherwise (no content
\* type included), and the call returns that path.
C6_ExtensionlessUrlIsWritten ==
    ( /\ pc = "done"
      /\ Answered
      /\ r.status = 200
      /\ ext = <<>>
      /\ exc \notin {"OSError", "ChunkedEncodingError"} ) =>
        LET ct == r.content_type
            target == IF ct # None /\ StartsWith(ct, ImagePrefix)
                      THEN Join(Folder, safe_name \o <<".">>
                                  \o Lower(SubSeq(ct, Len(ImagePrefix) + 1, Len(ct))))
                      ELSE ImagePath(safe_name, ext)
        IN  /\ outcome = Returned(target)
            /\ target \in opened

C8_OneGetWithUserAgent ==
    /\ Len(sent) <= 1
    /\ (pc \notin {"start", "request"} /\ outcome.kind # "raised") => Len(sent) = 1
    /\ \A i \in 1..Len(sent) :
          /\ sent[i].method = "GET"
          /\ sent[i].url = image_url
          /\ sent[i].stream
          /\ sent[i].timeout = Timeout
          /\ sent[i].headers = headers

\* The path p is the folder, one separator and one segment.
SegmentOf(p) == SubSeq(p, Len(Folder) + 2, Len(p))
InFolder(p) ==
    /\ p = Folder \o <<"/">> \o SegmentOf(p)
    /\ SegmentOf(p) # <<>>
    /\ "/" \notin Range(SegmentOf(p))

\* C9 as claimed: the sanitized name has only characters of the class, and
\* the path built from it lies directly inside the folder.
C9_TargetAlwaysInsideFolder ==
    (pc # "start" /\ exc # "ValueError") =>
        /\ Range(safe_name) \subseteq SafeChars
        /\ exc # "OSError" =>
              InFolder(image_path) /\ image_path \notin DirPaths

\* C9 as amended: the sanitized name has only characters of the class, the
\* path built from it is the folder plus one segment without separator, and
\* that segment is neither "." nor ".." unless the sanitized name is empty.
C9_SafeNameOneSegment ==
    (pc # "start" /\ exc # "ValueError") =>
        /\ Range(safe_name) \subseteq SafeChars
        /\ exc # "OSError" =>
              /\ InFolder(image_path)
              /\ safe_name # <<>> => image_path \notin DirPaths

\* A name with both separators that leaves a name behind.
C9_Witness ==
    /\ pc = "request"
    /\ "/" \in Range(name)
    /\ "\\" \in Range(name)
    /\ safe_name # <<>>

\* C10: the path the existence check and the write use is folder + name +
\* extension, the extension being empty or starting with one dot.
C10_PathIsNamePlusExtension ==
    pc = "request" =>
        /\ image_path = Join(Folder, safe_name \o ext)
        /\ ext # <<>> => ext[1] = "."

====
